---- MODULE Spec2Model ----
(***************************************************************************)
(* The chunked browser-recording upload protocol of dict-ai-te's Flask     *)
(* backend (src/dictaite/ui_web/app.py): the session table                 *)
(* RECORDING_SESSIONS guarded by RECORDING_LOCK, the recording files under *)
(* RECORDINGS_DIR, and the request handlers start / append / finalize /    *)
(* cancel run by concurrent worker threads.                                *)
(*                                                                         *)
(* A region `with RECORDING_LOCK:` is two steps: Acquire, then the body    *)
(* together with the release.  Code outside a locked region is one step    *)
(* per access to shared state (a session object's fields, a recording      *)
(* file, the decoder, a remote service).                                   *)
(***************************************************************************)
EXTENDS Integers, Sequences, FiniteSets, TLC

\* ------------------------------------------------------------------ bounds
NumThreads == 2
MaxSessions == 2
MaxSeq == 1
MaxRequests == 4

\* ------------------------------------------------------- program constants
MAX_AUDIO_DURATION_SECONDS == 120

ALLOWED_MIME_TYPES == {"audio/wav", "audio/x-wav", "audio/webm", "audio/ogg"}

\* --------------------------------------------------------- value universes
Threads == 1..NumThreads
SessionIds == 1..MaxSessions
None == "None"
NoOwner == 0
\* a well-formed session id that no start ever returned
UnknownId == 0
\* the request carries no (or a blank) session_id
NoId == -1

\* a raw mime value is the list of its ";"-separated segments; <<>> is an
\* absent or empty value
Payload(mime, mode, lang, target) ==
    [mime_type |-> mime, mode |-> mode, language |-> lang, target_lang |-> target]
\* the JSON payloads of /record/start the clients send
StartPayloads ==
    { Payload(<<>>, None, None, None),
      Payload(<<" Audio/WAV ", "codecs=1">>, "Translate", "es", "es"),
      Payload(<<"audio/webm">>, "bogus", "default", None),
      Payload(<<"audio/mp4">>, None, None, None) }
\* the overrides a /record/finalize payload carries
FinalizePayloads ==
    { Payload(<<>>, None, None, None),
      Payload(<<>>, "TRANSLATE", "default", None),
      Payload(<<>>, "bogus", None, "fr") }
\* a chunk upload is its bytes; a seq form value is its characters
ChunkData == {<<>>, <<"b", "c">>}
Digit == [n \in 0..9 |-> CASE n = 0 -> "0" [] n = 1 -> "1" [] n = 2 -> "2" [] n = 3 -> "3"
                           [] n = 4 -> "4" [] n = 5 -> "5" [] n = 6 -> "6" [] n = 7 -> "7"
                           [] n = 8 -> "8" [] n = 9 -> "9"]
SeqInputs == {<<>>, <<"x">>} \cup {<<Digit[n]>> : n \in 0..MaxSeq}
Durations == {0, MAX_AUDIO_DURATION_SECONDS, MAX_AUDIO_DURATION_SECONDS + 1}
\* how a call of transcribe() ends: it returns, raises TranscriptionError, or
\* raises another exception (the remote service failed)
Outcomes == {"ok", "TranscriptionError", "Exception"}
\* how a call of translate() ends: it raises no TranscriptionError
TranslateOutcomes == {"ok", "Exception"}
Transcript == "hello"
\* what transcribe() returns for an upload
Transcripts == {Transcript, "bye"}
\* an upload to /transcribe: whether the form has an "audio" file, the file's
\* mime type and bytes, and the form values language, translate, target_lang
Upload(present, mime, data, lang, flag, target) ==
    [present |-> present, mime_type |-> mime, data |-> data, language |-> lang,
     translate |-> flag, target_lang |-> target]
Uploads ==
    { Upload(FALSE, <<>>, <<>>, None, None, None),
      Upload(TRUE, <<" Audio/WAV ", "codecs=1">>, <<"b", "c">>, "en", "True", "es"),
      Upload(TRUE, <<"audio/webm">>, <<"b", "c">>, "default", "on", "default"),
      Upload(TRUE, <<"audio/mp4">>, <<"b", "c">>, None, "no", "es"),
      Upload(TRUE, <<"audio/wav">>, <<>>, None, None, None),
      Upload(TRUE, <<"text/plain">>, <<"b", "c">>, None, None, None) }

\* the settings the application has loaded: default_target_language is "en"
\* unless settings.json (or an earlier update) set it, possibly to null
LoadedSettings ==
    { [default_language |-> None, translate_by_default |-> FALSE,
       default_target_language |-> d, female_voice |-> "Nova", male_voice |-> "Onyx"] :
      d \in {"en", None} }
\* a JSON payload of POST /api/settings, by field: the posted JSON value
\* (null is None, true and false are "true" and "false"), or Absent for a
\* key the payload does not have
Absent == "absent"
SettingsPayload(lang, flag, target, female, male) ==
    [default_language |-> lang, translate_by_default |-> flag,
     default_target_language |-> target, female_voice |-> female, male_voice |-> male]
SettingsPayloads ==
    { SettingsPayload(Absent, Absent, Absent, Absent, Absent),
      SettingsPayload(Absent, "true", Absent, "nova", Absent),
      SettingsPayload("default", Absent, "es", Absent, Absent),
      SettingsPayload("fr", "no", None, Absent, ""),
      SettingsPayload(Absent, "false", Absent, "Echo", "Ash") }

VARIABLES
    store,      \* keys of RECORDING_SESSIONS
    sess,       \* the RecordingSession objects, by session id
    files,      \* the recording files that exist, by session id: their bytes
    lock,       \* owner of RECORDING_LOCK, or NoOwner
    nextId,     \* the next fresh session id
    known,      \* session ids returned by start
    settings,   \* current_app.config["DICTAITE_SETTINGS"]
    pc,         \* position of each worker thread in its handler
    req,        \* the request a thread handles and the handler's locals
    res,        \* the response of the thread's last request
    issued,     \* number of requests received so far
    accepted,   \* history: per session the <<seq, data>> acknowledged by append
    overlap     \* history: sessions on which an append got past its sequence
                \* check while a finalize was past the guard

vars ==
    <<store, sess, files, lock, nextId, known, settings, pc, req, res, issued, accepted,
      overlap>>

\* ----------------------------------------------------------------- helpers
\* str.strip().lower() on the strings the model uses
StripLower(s) ==
    CASE s = " Audio/WAV " -> "audio/wav"
      [] s = "TRANSLATE" -> "translate"
      [] s = "Translate" -> "translate"
      [] OTHER -> s

\* _normalize_mime_type: strip, lower, keep what precedes the first ";"
NormalizeMimeType(value) ==
    IF value = <<>> THEN "" ELSE StripLower(Head(value))

\* str.lower() on the strings the model uses
Lower(s) == CASE s = "True" -> "true" [] s = "TRANSLATE" -> "translate" [] OTHER -> s

\* a flag that is never set
ParseBoolNever(value) == FALSE

\* _parse_bool, on a form value
ParseBool(value) ==
    IF value = None THEN FALSE ELSE Lower(value) \in {"1", "true", "yes", "on"}

\* _normalize_language
NormalizeLanguage(value) ==
    IF value \in {None, "", "default"} THEN None ELSE value

\* x or y, on optional strings
Or(x, y) == IF x = None \/ x = "" THEN y ELSE x

\* a mode that is lowered but not checked against the two modes
NormalizeModeUnchecked(value) == StripLower(Or(value, "transcribe"))

\* mode = str(x or "transcribe").lower(), then anything that is not one of
\* the two modes becomes "transcribe"
NormalizeMode(value) ==
    LET m == StripLower(Or(value, "transcribe"))
    IN  IF m \in {"transcribe", "translate"} THEN m ELSE "transcribe"

\* int(seq_value): the digits' value, or -1 for a TypeError / ValueError
\* (the model's inputs carry no sign, so -1 is no parsed value)
RECURSIVE DigitsValue(_, _)
DigitsValue(chars, acc) ==
    IF chars = <<>> THEN acc
    ELSE LET ds == {n \in 0..9 : Digit[n] = Head(chars)}
         IN  IF ds = {} THEN -1
             ELSE DigitsValue(Tail(chars), 10 * acc + (CHOOSE n \in ds : TRUE))
ParseInt(chars) == IF chars = <<>> THEN -1 ELSE DigitsValue(chars, 0)

\* a session object that expects chunk 1 first
RecordingSessionFromOne(mime, mode, lang, target) ==
    [mime_type |-> mime, mode |-> mode, language |-> lang, target_lang |-> target,
     expected_seq |-> 1, chunk_count |-> 0, total_bytes |-> 0, finalizing |-> FALSE]

\* the dataclass RecordingSession with its defaults
RecordingSession(mime, mode, lang, target) ==
    [mime_type |-> mime, mode |-> mode, language |-> lang, target_lang |-> target,
     expected_seq |-> 0, chunk_count |-> 0, total_bytes |-> 0, finalizing |-> FALSE]

\* a request and the locals of its handler
NoRequest ==
    [kind |-> "none", sid |-> NoId, seq |-> -1, data |-> <<>>,
     mime |-> "", asked |-> None, mode |-> None, language |-> None, target |-> None,
     expected |-> -1, raw |-> <<>>, duration |-> -1, text |-> None,
     decoded |-> FALSE, transcribed |-> 0, translated |-> 0, raised |-> None,
     unlinked |-> FALSE, flag |-> None,
     payload |-> SettingsPayload(Absent, Absent, Absent, Absent, Absent),
     before |-> CHOOSE x \in LoadedSettings : x.default_target_language = "en",
     out |-> [code |-> None, status |-> 0]]

\* a response: an error envelope {error: {code}} with its status, or a JSON
\* body with status 200 (code "ok")
NoResponse ==
    [code |-> None, status |-> 0, session_id |-> NoId, mode |-> None, next_seq |-> -1,
     text |-> None, translatedText |-> None, durationMs |-> -1, note |-> None,
     settings |-> SettingsPayload(Absent, Absent, Absent, Absent, Absent)]

\* Settings.to_mapping as JSON: null is None, a boolean is "true" or "false"
ToMapping(x) == [x EXCEPT !.translate_by_default = IF @ THEN "true" ELSE "false"]

\* bool(value) and `value or ...` on a posted JSON value
Truthy(value) == value \notin {None, "", "false"}

\* updated settings whose absent fields fall back to the defaults of
\* Settings()
UpdatedFromDefaults(payload, x) ==
    [default_language |->
        IF payload.default_language = Absent THEN None
        ELSE NormalizeLanguage(payload.default_language),
     translate_by_default |->
        IF payload.translate_by_default = Absent THEN FALSE
        ELSE Truthy(payload.translate_by_default),
     default_target_language |->
        IF payload.default_target_language = Absent THEN "en"
        ELSE NormalizeLanguage(payload.default_target_language),
     female_voice |->
        IF payload.female_voice = Absent THEN "Nova"
        ELSE IF Truthy(payload.female_voice) THEN payload.female_voice ELSE x.female_voice,
     male_voice |->
        IF payload.male_voice = Absent THEN "Onyx"
        ELSE IF Truthy(payload.male_voice) THEN payload.male_voice ELSE x.male_voice]

\* the Settings that api_update_settings builds from the payload and the
\* current settings x
Updated(payload, x) ==
    [default_language |->
        IF payload.default_language = Absent THEN x.default_language
        ELSE NormalizeLanguage(payload.default_language),
     translate_by_default |->
        IF payload.translate_by_default = Absent THEN x.translate_by_default
        ELSE Truthy(payload.translate_by_default),
     default_target_language |->
        IF payload.default_target_language = Absent THEN x.default_target_language
        ELSE NormalizeLanguage(payload.default_target_language),
     female_voice |->
        IF payload.female_voice = Absent THEN x.female_voice
        ELSE IF Truthy(payload.female_voice) THEN payload.female_voice ELSE x.female_voice,
     male_voice |->
        IF payload.male_voice = Absent THEN x.male_voice
        ELSE IF Truthy(payload.male_voice) THEN payload.male_voice ELSE x.male_voice]

\* json_error
JsonError(code, status) == [NoResponse EXCEPT !.code = code, !.status = status]

Ok == [NoResponse EXCEPT !.code = "ok", !.status = 200]

\* an unknown session reported as a bad request
UnknownSessionBadRequest == JsonError("unknown_session", 400)

\* the answer of append and finalize to an id that is not in the store
UnknownSession == JsonError("unknown_session", 404)

Remove(f, k) == [x \in DOMAIN f \ {k} |-> f[x]]

Init ==
    /\ store = {}
    /\ sess = <<>>
    /\ files = <<>>
    /\ lock = NoOwner
    /\ nextId = 1
    /\ known = {}
    /\ settings \in LoadedSettings
    /\ pc = [t \in Threads |-> "idle"]
    /\ req = [t \in Threads |-> NoRequest]
    /\ res = [t \in Threads |-> NoResponse]
    /\ issued = 0
    /\ accepted = [s \in SessionIds |-> <<>>]
    /\ overlap = {}

\* the ids a client can name: those a start returned, a fabricated one, none
ClientIds == known \cup {UnknownId, NoId}

\* an idle worker thread takes the next request off the wire
Receive(t) ==
    /\ pc[t] = "idle"
    /\ issued < MaxRequests
    /\ issued' = issued + 1

\* a thread finishes its request with the given response
Respond(t, r) ==
    /\ pc' = [pc EXCEPT ![t] = "done"]
    /\ res' = [res EXCEPT ![t] = r]

\* a thread goes on with a request it has just received
Proceed(t, p) ==
    /\ pc' = [pc EXCEPT ![t] = p]
    /\ UNCHANGED res

\* the response has been sent: the worker thread is idle again
Return(t) ==
    /\ pc[t] = "done"
    /\ pc' = [pc EXCEPT ![t] = "idle"]
    /\ req' = [req EXCEPT ![t] = NoRequest]
    /\ res' = [res EXCEPT ![t] = NoResponse]
    /\ UNCHANGED <<store, sess, files, lock, nextId, known, settings, issued, accepted, overlap>>

\* RECORDING_LOCK.acquire() of a `with RECORDING_LOCK:` block
WaitPcs == {"start_wait", "append_wait", "guard_wait", "pop_wait", "reset_wait", "cancel_wait"}
Locked(p) ==
    CASE p = "start_wait" -> "start_locked"
      [] p = "append_wait" -> "append_locked"
      [] p = "guard_wait" -> "guard_locked"
      [] p = "pop_wait" -> "pop_locked"
      [] p = "reset_wait" -> "reset_locked"
      [] p = "cancel_wait" -> "cancel_locked"

\* an acquire that does not wait for the owner to release
AcquireNoWait(t) ==
    /\ pc[t] \in WaitPcs
    /\ lock' = t
    /\ pc' = [pc EXCEPT ![t] = Locked(pc[t])]
    /\ UNCHANGED <<store, sess, files, nextId, known, settings, req, res, issued, accepted, overlap>>

Acquire(t) ==
    /\ pc[t] \in WaitPcs
    /\ lock = NoOwner
    /\ lock' = t
    /\ pc' = [pc EXCEPT ![t] = Locked(pc[t])]
    /\ UNCHANGED <<store, sess, files, nextId, known, settings, req, res, issued, accepted, overlap>>

\* ------------------------------------------------------- /record/start
\* a start that accepts every mime type
SupportedAny(mime) == TRUE

\* the allow-list test of api_record_start
Supported(mime) == mime \in ALLOWED_MIME_TYPES

\* api_record_start up to the construction of the session object: the
\* payload is normalised, the mime type checked against the allow-list, a
\* fresh id drawn and the empty recording file created (oserror: mkdir or
\* open raised OSError)
StartCreate(t, payload, oserror) ==
    /\ Receive(t)
    /\ LET mime == Or(NormalizeMimeType(payload.mime_type), "audio/webm")
           mode == NormalizeMode(payload.mode)
           r == [NoRequest EXCEPT
                    !.kind = "start", !.mime = mime, !.asked = payload.mode, !.mode = mode,
                    !.language = NormalizeLanguage(payload.language),
                    !.target = NormalizeLanguage(payload.target_lang)]
       IN  /\ Supported(mime) => nextId <= MaxSessions
           /\ IF ~Supported(mime)
              THEN /\ req' = [req EXCEPT ![t] = r]
                   /\ Respond(t, JsonError("unsupported_type", 400))
                   /\ UNCHANGED <<files, nextId>>
              ELSE /\ req' = [req EXCEPT ![t] = [r EXCEPT !.sid = nextId]]
                   /\ nextId' = nextId + 1
                   /\ IF oserror
                      THEN /\ Respond(t, JsonError("storage_unavailable", 500))
                           /\ UNCHANGED files
                      ELSE /\ files' = (nextId :> <<>>) @@ files
                           /\ Proceed(t, "start_wait")
    /\ UNCHANGED <<store, sess, lock, known, settings, accepted, overlap>>

\* with RECORDING_LOCK: RECORDING_SESSIONS[session_id] = session
StartInsert(t) ==
    /\ pc[t] = "start_locked"
    /\ LET r == req[t]
       IN  /\ store' = store \cup {r.sid}
           /\ sess' = (r.sid :> RecordingSession(r.mime, r.mode, r.language, r.target)) @@ sess
           /\ known' = known \cup {r.sid}
           /\ Respond(t, [Ok EXCEPT !.session_id = r.sid, !.mode = r.mode])
    /\ lock' = NoOwner
    /\ UNCHANGED <<files, nextId, settings, req, issued, accepted, overlap>>

\* ------------------------------------------------------ /record/append
\* api_record_append before the lock: the form is validated
AppendValidate(t, sidIn, hasChunk, seqIn, data) ==
    /\ Receive(t)
    /\ LET r == [NoRequest EXCEPT !.kind = "append", !.sid = sidIn]
           Reject(code) == req' = [req EXCEPT ![t] = r] /\ Respond(t, JsonError(code, 400))
       IN  IF sidIn = NoId THEN Reject("missing_session")
           ELSE IF ~hasChunk THEN Reject("missing_chunk")
           ELSE IF ParseInt(seqIn) = -1 THEN Reject("invalid_sequence")
           ELSE IF data = <<>> THEN Reject("empty_chunk")
           ELSE /\ req' = [req EXCEPT ![t] = [r EXCEPT !.seq = ParseInt(seqIn), !.data = data]]
                /\ Proceed(t, "append_wait")
    /\ UNCHANGED <<store, sess, files, lock, nextId, known, settings, accepted, overlap>>

\* the sequence check, were it to let a chunk past a gap through
InOrderOrLater(seq, expected) == seq >= expected

\* the sequence check of api_record_append
InOrder(seq, expected) == seq = expected

\* a write that lands in every recording file there is
AppendBytesAnywhere(f, sid, data) ==
    IF sid \in DOMAIN f THEN [x \in DOMAIN f |-> f[x] \o data] ELSE (sid :> data) @@ f

\* session.path.open("ab") creates the file when it does not exist
AppendBytes(f, sid, data) ==
    IF sid \in DOMAIN f THEN [f EXCEPT ![sid] = @ \o data] ELSE (sid :> data) @@ f

\* counters that miss the chunk count
AdvanceWithoutCount(session, data) ==
    [session EXCEPT !.expected_seq = @ + 1, !.total_bytes = @ + Len(data)]

\* the counters of a session after one more chunk
Advance(session, data) ==
    [session EXCEPT !.expected_seq = @ + 1, !.chunk_count = @ + 1,
                    !.total_bytes = @ + Len(data)]

\* api_record_append inside `with RECORDING_LOCK:`, in three steps: the
\* lookup and the sequence check,
AppendCheck(t) ==
    /\ pc[t] = "append_locked"
    /\ LET r == req[t]
       IN  IF r.sid \notin store
           THEN /\ Respond(t, UnknownSession)
                /\ lock' = NoOwner
                /\ UNCHANGED req
           ELSE /\ req' = [req EXCEPT ![t].expected = sess[r.sid].expected_seq]
                /\ IF ~InOrder(r.seq, sess[r.sid].expected_seq)
                   THEN /\ Respond(t, JsonError("out_of_order", 409))
                        /\ lock' = NoOwner
                   ELSE /\ pc' = [pc EXCEPT ![t] = "append_write"]
                        /\ UNCHANGED <<res, lock>>
    /\ overlap' = IF /\ req[t].sid \in store
                     /\ InOrder(req[t].seq, sess[req[t].sid].expected_seq)
                     /\ sess[req[t].sid].finalizing
                  THEN overlap \cup {req[t].sid} ELSE overlap
    /\ UNCHANGED <<store, sess, files, nextId, known, settings, issued, accepted>>

\* what opening the file and writing the chunk can come to: the chunk is
\* written; open("ab") raises OSError and nothing is touched; or the file is
\* opened (and created when it was gone) and the write or the flush raises
\* OSError after `kept` bytes of the chunk have reached the file
WriteOutcomes(data) ==
    {[fault |-> "none", kept |-> Len(data)], [fault |-> "open", kept |-> 0]}
        \cup {[fault |-> "write", kept |-> n] : n \in 0..(Len(data) - 1)}

\* the write of the chunk,
AppendWrite(t, o) ==
    /\ pc[t] = "append_write"
    /\ IF o.fault # "none"
       THEN /\ Respond(t, JsonError("write_failed", 500))
            /\ lock' = NoOwner
            /\ IF o.fault = "open" THEN UNCHANGED files
               ELSE files' = AppendBytes(files, req[t].sid, SubSeq(req[t].data, 1, o.kept))
       ELSE /\ files' = AppendBytes(files, req[t].sid, req[t].data)
            /\ pc' = [pc EXCEPT ![t] = "append_advance"]
            /\ UNCHANGED <<res, lock>>
    /\ UNCHANGED <<store, sess, nextId, known, settings, req, issued, accepted, overlap>>

\* and the counters; the lock is released and the chunk acknowledged
AppendAdvance(t) ==
    /\ pc[t] = "append_advance"
    /\ LET r == req[t]
       IN  /\ sess' = [sess EXCEPT ![r.sid] = Advance(@, r.data)]
           /\ accepted' = [accepted EXCEPT ![r.sid] = Append(@, <<r.seq, r.data>>)]
           /\ Respond(t, [Ok EXCEPT !.next_seq = r.seq + 1])
    /\ lock' = NoOwner
    /\ UNCHANGED <<store, files, nextId, known, settings, req, issued, overlap>>

\* ---------------------------------------------------- /record/finalize
\* api_record_finalize before the lock: the payload is read
FinalizeValidate(t, sidIn, payload) ==
    /\ Receive(t)
    /\ LET r == [NoRequest EXCEPT !.kind = "finalize", !.sid = sidIn]
       IN  IF sidIn = NoId
           THEN /\ req' = [req EXCEPT ![t] = r]
                /\ Respond(t, JsonError("missing_session", 400))
           ELSE /\ req' = [req EXCEPT ![t] = [r EXCEPT !.mode = payload.mode,
                                !.language = payload.language, !.target = payload.target_lang]]
                /\ Proceed(t, "guard_wait")
    /\ UNCHANGED <<store, sess, files, lock, nextId, known, settings, accepted, overlap>>

\* a guard that lets every finalize through
NeverBusy(session) == FALSE

\* the test of the finalizing guard
Busy(session) == session.finalizing

\* the first `with RECORDING_LOCK:` of api_record_finalize, in two steps:
\* the lookup and the test of the guard,
\* a guard whose already_finalizing return leaves the lock held
FinalizeGuardKeepsLock(t) ==
    /\ pc[t] = "guard_locked"
    /\ LET sid == req[t].sid
       IN  IF sid \notin store
           THEN Respond(t, UnknownSession) /\ lock' = NoOwner
           ELSE IF Busy(sess[sid])
           THEN Respond(t, JsonError("already_finalizing", 409)) /\ UNCHANGED lock
           ELSE pc' = [pc EXCEPT ![t] = "guard_set"] /\ UNCHANGED <<res, lock>>
    /\ UNCHANGED <<store, sess, files, nextId, known, settings, req, issued, accepted, overlap>>

FinalizeGuard(t) ==
    /\ pc[t] = "guard_locked"
    /\ LET sid == req[t].sid
       IN  IF sid \notin store
           THEN Respond(t, UnknownSession) /\ lock' = NoOwner
           ELSE IF Busy(sess[sid])
           THEN Respond(t, JsonError("already_finalizing", 409)) /\ lock' = NoOwner
           ELSE pc' = [pc EXCEPT ![t] = "guard_set"] /\ UNCHANGED <<res, lock>>
    /\ UNCHANGED <<store, sess, files, nextId, known, settings, req, issued, accepted, overlap>>

\* a guard that marks the session and goes on with the lock held
FinalizeMarkHoldingLock(t) ==
    /\ pc[t] = "guard_set"
    /\ sess' = [sess EXCEPT ![req[t].sid].finalizing = TRUE]
    /\ pc' = [pc EXCEPT ![t] = "check"]
    /\ UNCHANGED <<store, files, lock, nextId, known, settings, req, res, issued, accepted,
                   overlap>>

\* and session.finalizing = True; the lock is released
FinalizeMark(t) ==
    /\ pc[t] = "guard_set"
    /\ sess' = [sess EXCEPT ![req[t].sid].finalizing = TRUE]
    /\ pc' = [pc EXCEPT ![t] = "check"]
    /\ lock' = NoOwner
    /\ UNCHANGED <<store, files, nextId, known, settings, req, res, issued, accepted, overlap>>

\* fail() with every failure cleaned up
AlwaysCleanup(cleanup) == "unlink"

\* fail(code, message, status, cleanup): which of its two branches runs
FailPc(cleanup) == IF cleanup THEN "unlink" ELSE "reset_wait"

\* a call of fail(): the error response is kept until fail() returns it
Fail(t, r, code, status, cleanup) ==
    /\ req' = [req EXCEPT ![t] = [r EXCEPT !.out = JsonError(code, status)]]
    /\ pc' = [pc EXCEPT ![t] = FailPc(cleanup)]

\* the emptiness test on the session's counters
NothingReceived(session) == session.chunk_count = 0 \/ session.total_bytes = 0

\* the counters are read without the lock, then mode, language and target
\* language are resolved from the payload and the session
FinalizeCheck(t) ==
    /\ pc[t] = "check"
    /\ LET r == req[t]
           session == sess[r.sid]
           resolved == [r EXCEPT
               !.mode = NormalizeMode(Or(r.mode, Or(session.mode, "transcribe"))),
               !.language = Or(NormalizeLanguage(r.language), session.language),
               !.target = Or(NormalizeLanguage(r.target), session.target_lang)]
       IN  IF NothingReceived(session)
           THEN Fail(t, r, "empty_recording", 400, TRUE)
           ELSE /\ req' = [req EXCEPT ![t] = resolved]
                /\ pc' = [pc EXCEPT ![t] = "read"]
    /\ UNCHANGED <<store, sess, files, lock, nextId, known, settings, res, issued, accepted, overlap>>

\* raw_data = session.path.read_bytes(): OSError when the file is gone
FinalizeRead(t) ==
    /\ pc[t] = "read"
    /\ LET r == req[t]
       IN  IF r.sid \notin DOMAIN files
           THEN Fail(t, r, "missing_file", 500, TRUE)
           ELSE IF files[r.sid] = <<>>
           THEN Fail(t, r, "empty_recording", 400, TRUE)
           ELSE /\ req' = [req EXCEPT ![t].raw = files[r.sid]]
                /\ pc' = [pc EXCEPT ![t] = "decode"]
    /\ UNCHANGED <<store, sess, files, lock, nextId, known, settings, res, issued, accepted, overlap>>

\* the duration test of _prepare_wav_and_duration
TooLong(duration) == duration > MAX_AUDIO_DURATION_SECONDS

\* prepare_wav, _duration_seconds and the duration limit.  env is what the
\* decoders make of the bytes: whether pydub is installed, whether the bytes
\* decode, and the duration the decoded audio has
PrepareWavAndDuration(mime, env) ==
    IF mime \notin ALLOWED_MIME_TYPES THEN "TranscriptionError"
    ELSE IF mime \notin {"audio/wav", "audio/x-wav"} /\ ~env.pydub THEN "TranscriptionError"
    ELSE IF ~env.decodable THEN "Exception"
    ELSE IF TooLong(env.duration) THEN "TranscriptionError"
    ELSE "ok"

\* duration_seconds as _prepare_wav_and_duration computes it, -1 when
\* prepare_wav or _duration_seconds raised before
DecodedDuration(mime, env) ==
    IF mime \notin ALLOWED_MIME_TYPES THEN -1
    ELSE IF mime \notin {"audio/wav", "audio/x-wav"} /\ ~env.pydub THEN -1
    ELSE IF ~env.decodable THEN -1
    ELSE env.duration

DecodeEnvs == [pydub : BOOLEAN, decodable : BOOLEAN, duration : Durations]

FinalizeDecode(t, env) ==
    /\ pc[t] = "decode"
    /\ LET mime == Or(NormalizeMimeType(<<sess[req[t].sid].mime_type>>), "audio/webm")
           outcome == PrepareWavAndDuration(mime, env)
           r == [req[t] EXCEPT !.decoded = TRUE, !.duration = DecodedDuration(mime, env)]
       IN  IF outcome = "TranscriptionError" THEN Fail(t, r, "invalid_audio", 400, TRUE)
           ELSE IF outcome = "Exception" THEN Fail(t, r, "decode_error", 500, TRUE)
           ELSE /\ req' = [req EXCEPT ![t] = r]
                /\ pc' = [pc EXCEPT ![t] = "transcribe"]
    /\ UNCHANGED <<store, sess, files, lock, nextId, known, settings, res, issued, accepted, overlap>>

\* a result payload that lacks the transcript
ResultWithoutText(r) ==
    [Ok EXCEPT !.session_id = r.sid, !.mode = r.mode, !.durationMs = r.duration * 1000]

\* the result payload of a successful finalize
Result(r) ==
    [Ok EXCEPT !.session_id = r.sid, !.mode = r.mode, !.text = r.text,
               !.durationMs = r.duration * 1000]

\* _run_transcription and its two except clauses; with a mode other than
\* "translate" the handler goes on to the cleanup
FinalizeTranscribe(t, outcome) ==
    /\ pc[t] = "transcribe"
    /\ LET r == [req[t] EXCEPT !.transcribed = @ + 1,
                                !.raised = IF outcome = "ok" THEN None ELSE outcome]
       IN  IF outcome = "TranscriptionError" THEN Fail(t, r, "transcription_failed", 400, TRUE)
           ELSE IF outcome = "Exception" THEN Fail(t, r, "transcription_failed", 502, FALSE)
           ELSE LET done == [r EXCEPT !.text = Transcript]
                IN  /\ req' = [req EXCEPT ![t] = [done EXCEPT !.out = Result(done)]]
                    /\ pc' = [pc EXCEPT ![t] = IF r.mode = "translate" THEN "translate"
                                                ELSE "unlink"]
    /\ UNCHANGED <<store, sess, files, lock, nextId, known, settings, res, issued, accepted, overlap>>

\* what the remote translation returns
Translation(text, code) ==
    CASE code = "es" -> "hola" [] code = "en" -> "hello (en)" [] OTHER -> text

\* a target language that ignores the settings
TargetCodeNoFallback(target, s) == target

\* code = target_lang or settings.default_target_language
TargetCode(target, s) == Or(target, s.default_target_language)

\* the translate block: the target language falls back to the settings; any
\* exception of translate() is answered 502 and keeps the session
FinalizeTranslate(t, outcome) ==
    /\ pc[t] = "translate"
    /\ LET r == req[t]
           code == TargetCode(r.target, settings)
           called == [r EXCEPT !.translated = @ + 1,
                                !.raised = IF outcome = "ok" THEN None ELSE outcome]
       IN  IF code = None
           THEN /\ pc' = [pc EXCEPT ![t] = "unlink"]
                /\ UNCHANGED req
           ELSE IF outcome # "ok"
           THEN Fail(t, called, "translation_failed", 502, FALSE)
           ELSE /\ req' = [req EXCEPT ![t] = [called EXCEPT
                            !.out.translatedText = Translation(r.text, code)]]
                /\ pc' = [pc EXCEPT ![t] = "unlink"]
    /\ UNCHANGED <<store, sess, files, lock, nextId, known, settings, res, issued, accepted, overlap>>

\* a cleanup that leaves the file where it is
UnlinkNothing(f, sid) == f

\* _cleanup_recording_file(session): session.path.unlink(missing_ok=True)
Unlink(f, sid) == Remove(f, sid)

\* the cleanup of fail() and of the success path: the file is deleted
\* outside the lock
FinalizeUnlink(t) ==
    /\ pc[t] = "unlink"
    /\ files' = Unlink(files, req[t].sid)
    /\ req' = [req EXCEPT ![t].unlinked = TRUE]
    /\ pc' = [pc EXCEPT ![t] = "pop_wait"]
    /\ UNCHANGED <<store, sess, lock, nextId, known, settings, res, issued, accepted, overlap>>

\* with RECORDING_LOCK: RECORDING_SESSIONS.pop(session_id, None), then the
\* handler returns the result or the error
FinalizePop(t) ==
    /\ pc[t] = "pop_locked"
    /\ store' = store \ {req[t].sid}
    /\ Respond(t, req[t].out)
    /\ lock' = NoOwner
    /\ UNCHANGED <<sess, files, nextId, known, settings, req, issued, accepted, overlap>>

\* a reset that leaves the flag set
FinalizeResetKeepsFlag(t) ==
    /\ pc[t] = "reset_locked"
    /\ Respond(t, req[t].out)
    /\ lock' = NoOwner
    /\ UNCHANGED <<store, sess, files, nextId, known, settings, req, issued, accepted,
                   overlap>>

\* a reset that puts the session back into the store
FinalizeResetReinsert(t) ==
    /\ pc[t] = "reset_locked"
    /\ store' = store \cup {req[t].sid}
    /\ sess' = [sess EXCEPT ![req[t].sid].finalizing = FALSE]
    /\ Respond(t, req[t].out)
    /\ lock' = NoOwner
    /\ UNCHANGED <<files, nextId, known, settings, req, issued, accepted, overlap>>

\* fail(..., cleanup=False): with RECORDING_LOCK: session.finalizing = False
FinalizeReset(t) ==
    /\ pc[t] = "reset_locked"
    /\ sess' = [sess EXCEPT ![req[t].sid].finalizing = FALSE]
    /\ Respond(t, req[t].out)
    /\ lock' = NoOwner
    /\ UNCHANGED <<store, files, nextId, known, settings, req, issued, accepted, overlap>>

\* ------------------------------------------------------ /record/cancel
CancelValidate(t, sidIn) ==
    /\ Receive(t)
    /\ req' = [req EXCEPT ![t] = [NoRequest EXCEPT !.kind = "cancel", !.sid = sidIn]]
    /\ IF sidIn = NoId THEN Respond(t, JsonError("missing_session", 400))
       ELSE Proceed(t, "cancel_wait")
    /\ UNCHANGED <<store, sess, files, lock, nextId, known, settings, accepted, overlap>>

\* a not-found acknowledgement that is an error response
NotFoundError == JsonError("unknown_session", 404)

\* the acknowledgement of a cancel that found no session
NotFound == [Ok EXCEPT !.note = "not_found"]

\* with RECORDING_LOCK: session = RECORDING_SESSIONS.pop(session_id, None)
CancelPop(t) ==
    /\ pc[t] = "cancel_locked"
    /\ IF req[t].sid \notin store
       THEN /\ Respond(t, NotFound)
            /\ UNCHANGED store
       ELSE /\ store' = store \ {req[t].sid}
            /\ pc' = [pc EXCEPT ![t] = "cancel_unlink"]
            /\ UNCHANGED res
    /\ lock' = NoOwner
    /\ UNCHANGED <<sess, files, nextId, known, settings, req, issued, accepted, overlap>>

\* _cleanup_recording_file(session), then {ok: true}
CancelUnlink(t) ==
    /\ pc[t] = "cancel_unlink"
    /\ files' = Unlink(files, req[t].sid)
    /\ req' = [req EXCEPT ![t].unlinked = TRUE]
    /\ Respond(t, Ok)
    /\ UNCHANGED <<store, sess, lock, nextId, known, settings, issued, accepted, overlap>>

\* ------------------------------------------------------------- the system
\* -------------------------------------------------------------- /settings
\* api_get_settings
GetSettings(t) ==
    /\ Receive(t)
    /\ req' = [req EXCEPT ![t] = [NoRequest EXCEPT !.kind = "get_settings"]]
    /\ Respond(t, [Ok EXCEPT !.settings = ToMapping(settings)])
    /\ UNCHANGED <<store, sess, files, lock, nextId, known, settings, accepted, overlap>>

\* api_update_settings up to save_settings: the payload and the settings
\* the handler works from
UpdateRead(t, payload) ==
    /\ Receive(t)
    /\ req' = [req EXCEPT ![t] = [NoRequest EXCEPT !.kind = "update_settings",
                                                    !.payload = payload, !.before = settings]]
    /\ Proceed(t, "settings_save")
    /\ UNCHANGED <<store, sess, files, lock, nextId, known, settings, accepted, overlap>>

\* save_settings(updated), which an OSError ends with a 500 of the
\* framework, then current_app.config["DICTAITE_SETTINGS"] = updated
UpdateSave(t, oserror) ==
    /\ pc[t] = "settings_save"
    /\ LET updated == Updated(req[t].payload, req[t].before)
       IN  IF oserror
           THEN /\ Respond(t, JsonError("internal_server_error", 500))
                /\ UNCHANGED settings
           ELSE /\ settings' = updated
                /\ Respond(t, [Ok EXCEPT !.settings = ToMapping(updated)])
    /\ UNCHANGED <<store, sess, files, lock, nextId, known, req, issued, accepted, overlap>>

\* ------------------------------------------------------------ /transcribe
\* a validation that takes the lock and keeps it when the upload is missing
TranscribeValidateLocked(t, upload) ==
    /\ Receive(t)
    /\ lock = NoOwner
    /\ req' = [req EXCEPT ![t] = [NoRequest EXCEPT !.kind = "transcribe"]]
    /\ lock' = IF upload.present THEN NoOwner ELSE t
    /\ Respond(t, JsonError("missing_audio", 400))
    /\ UNCHANGED <<store, sess, files, nextId, known, settings, accepted, overlap>>

\* api_transcribe up to the decode: the form and the upload are validated
TranscribeValidate(t, upload) ==
    /\ Receive(t)
    /\ LET mime == NormalizeMimeType(upload.mime_type)
           r == [NoRequest EXCEPT !.kind = "transcribe", !.mime = mime, !.raw = upload.data,
                                  !.language = upload.language, !.flag = upload.translate,
                                  !.target = upload.target_lang]
       IN  /\ req' = [req EXCEPT ![t] = r]
           /\ IF ~upload.present THEN Respond(t, JsonError("missing_audio", 400))
              ELSE IF mime \notin ALLOWED_MIME_TYPES
              THEN Respond(t, JsonError("unsupported_type", 400))
              ELSE IF upload.data = <<>> THEN Respond(t, JsonError("empty_audio", 400))
              ELSE Proceed(t, "up_decode")
    /\ UNCHANGED <<store, sess, files, lock, nextId, known, settings, accepted, overlap>>

\* _prepare_wav_and_duration and its two except clauses, then the form's
\* language, translate and target_lang
TranscribeDecode(t, env) ==
    /\ pc[t] = "up_decode"
    /\ LET outcome == PrepareWavAndDuration(req[t].mime, env)
           r == [req[t] EXCEPT !.decoded = TRUE,
                               !.duration = DecodedDuration(req[t].mime, env)]
       IN  IF outcome = "TranscriptionError"
           THEN /\ req' = [req EXCEPT ![t] = r]
                /\ Respond(t, JsonError("invalid_audio", 400))
           ELSE IF outcome = "Exception"
           THEN /\ req' = [req EXCEPT ![t] = r]
                /\ Respond(t, JsonError("decode_error", 500))
           ELSE /\ req' = [req EXCEPT ![t] = [r EXCEPT
                            !.language = NormalizeLanguage(r.language),
                            !.target = NormalizeLanguage(r.target)]]
                /\ Proceed(t, "up_transcribe")
    /\ UNCHANGED <<store, sess, files, lock, nextId, known, settings, issued, accepted, overlap>>

\* a result payload that lacks the transcript
TranscribeResultWithoutText(r) == [Ok EXCEPT !.durationMs = r.duration * 1000]

\* result = {"text": transcript, "durationMs": int(duration_seconds * 1000)}
TranscribeResult(r) == [Ok EXCEPT !.text = r.text, !.durationMs = r.duration * 1000]

\* _run_transcription and its two except clauses; without the translate
\* flag the result is returned
TranscribeRun(t, outcome, transcript) ==
    /\ pc[t] = "up_transcribe"
    /\ LET r == [req[t] EXCEPT !.transcribed = @ + 1,
                                !.raised = IF outcome = "ok" THEN None ELSE outcome]
       IN  IF outcome = "TranscriptionError"
           THEN /\ req' = [req EXCEPT ![t] = r]
                /\ Respond(t, JsonError("transcription_failed", 400))
           ELSE IF outcome = "Exception"
           THEN /\ req' = [req EXCEPT ![t] = r]
                /\ Respond(t, JsonError("transcription_failed", 502))
           ELSE LET done == [r EXCEPT !.text = transcript]
                IN  /\ req' = [req EXCEPT ![t] = [done EXCEPT !.out = TranscribeResult(done)]]
                    /\ IF ParseBool(r.flag) THEN Proceed(t, "up_translate")
                       ELSE Respond(t, TranscribeResult(done))
    /\ UNCHANGED <<store, sess, files, lock, nextId, known, settings, issued, accepted, overlap>>

\* the translate block of api_transcribe
TranscribeTranslate(t, outcome) ==
    /\ pc[t] = "up_translate"
    /\ LET r == req[t]
           code == TargetCode(r.target, settings)
           called == [r EXCEPT !.translated = @ + 1,
                                !.raised = IF outcome = "ok" THEN None ELSE outcome]
       IN  IF code = None
           THEN /\ Respond(t, r.out)
                /\ UNCHANGED req
           ELSE IF outcome # "ok"
           THEN /\ req' = [req EXCEPT ![t] = called]
                /\ Respond(t, JsonError("translation_failed", 502))
           ELSE /\ req' = [req EXCEPT ![t] = called]
                /\ Respond(t, [r.out EXCEPT !.translatedText = Translation(r.text, code)])
    /\ UNCHANGED <<store, sess, files, lock, nextId, known, settings, issued, accepted, overlap>>

Next ==
    \E t \in Threads :
        \/ \E p \in StartPayloads, e \in BOOLEAN : StartCreate(t, p, e)
        \/ StartInsert(t)
        \/ \E s \in ClientIds, h \in BOOLEAN, q \in SeqInputs, d \in ChunkData :
              AppendValidate(t, s, h, q, d)
        \/ AppendCheck(t)
        \/ \E o \in WriteOutcomes(req[t].data) : AppendWrite(t, o)
        \/ AppendAdvance(t)
        \/ \E s \in ClientIds, p \in FinalizePayloads : FinalizeValidate(t, s, p)
        \/ FinalizeGuard(t)
        \/ FinalizeMark(t)
        \/ FinalizeCheck(t)
        \/ FinalizeRead(t)
        \/ \E env \in DecodeEnvs : FinalizeDecode(t, env)
        \/ \E o \in Outcomes : FinalizeTranscribe(t, o)
        \/ \E o \in TranslateOutcomes : FinalizeTranslate(t, o)
        \/ FinalizeUnlink(t)
        \/ FinalizePop(t)
        \/ FinalizeReset(t)
        \/ \E s \in ClientIds : CancelValidate(t, s)
        \/ CancelPop(t)
        \/ CancelUnlink(t)
        \/ Acquire(t)
        \/ Return(t)

Spec == Init /\ [][Next]_vars

\* one step of the handler thread t is running: every action but the arrival
\* of a request, which is the client's to take
Step(t) ==
    \/ StartInsert(t)
    \/ AppendCheck(t)
    \/ \E o \in WriteOutcomes(req[t].data) : AppendWrite(t, o)
    \/ AppendAdvance(t)
    \/ FinalizeGuard(t)
    \/ FinalizeMark(t)
    \/ FinalizeCheck(t)
    \/ FinalizeRead(t)
    \/ \E env \in DecodeEnvs : FinalizeDecode(t, env)
    \/ \E o \in Outcomes : FinalizeTranscribe(t, o)
    \/ \E o \in TranslateOutcomes : FinalizeTranslate(t, o)
    \/ FinalizeUnlink(t)
    \/ FinalizePop(t)
    \/ FinalizeReset(t)
    \/ CancelPop(t)
    \/ CancelUnlink(t)
    \/ Acquire(t)
    \/ Return(t)

\* a request for a recording handler arrives at thread t, as one of the
\* first `limit` requests of the run
Arrive(t, limit) ==
    \/ \E p \in StartPayloads, e \in BOOLEAN : issued < limit /\ StartCreate(t, p, e)
    \/ \E s \in ClientIds, h \in BOOLEAN, q \in SeqInputs, d \in ChunkData :
          issued < limit /\ AppendValidate(t, s, h, q, d)
    \/ \E s \in ClientIds, p \in FinalizePayloads : issued < limit /\ FinalizeValidate(t, s, p)
    \/ \E s \in ClientIds : issued < limit /\ CancelValidate(t, s)

\* the requests of a run under SettingsSpec
SettingsRequests == 3

\* the two /settings handlers, run by concurrent worker threads
SettingsNext ==
    \E t \in Threads :
        \/ issued < SettingsRequests /\ GetSettings(t)
        \/ \E p \in SettingsPayloads : issued < SettingsRequests /\ UpdateRead(t, p)
        \/ \E e \in BOOLEAN : UpdateSave(t, e)
        \/ Return(t)
SettingsSpec == Init /\ [][SettingsNext]_vars

\* the requests of a run under UploadSpec
UploadRequests == 3

\* the /transcribe handler, run next to the recording handlers
UploadNext ==
    \E t \in Threads :
        \/ \E u \in Uploads : issued < UploadRequests /\ TranscribeValidate(t, u)
        \/ \E env \in DecodeEnvs : TranscribeDecode(t, env)
        \/ \E o \in Outcomes, x \in Transcripts : TranscribeRun(t, o, x)
        \/ \E o \in TranslateOutcomes : TranscribeTranslate(t, o)
        \/ Arrive(t, UploadRequests)
        \/ Step(t)
UploadSpec == Init /\ [][UploadNext]_vars

\* the requests of a run under FairSpec
FairRequests == 3

\* the recording handlers, serving FairRequests requests
FairNext == \E t \in Threads : Arrive(t, FairRequests) \/ Step(t)

\* the handlers under a scheduler that lets every worker thread run: a thread
\* that can take a step takes one; the decoder and the remote calls return
\* or raise
FairSpec == Init /\ [][FairNext]_vars /\ \A t \in Threads : WF_vars(Step(t))

\* =================================================================== claims
\* a thread has answered a request of the given kind
Done(t, kind) == pc[t] = "done" /\ req[t].kind = kind

\* an append that has been answered after its sequence check: the session
\* was in the store and `expected` is the expected_seq the check read
Checked(t) == Done(t, "append") /\ req[t].expected # -1

\* the bytes of a list of acknowledged chunks
RECURSIVE Bytes(_)
Bytes(chunks) == IF chunks = <<>> THEN <<>> ELSE Head(chunks)[2] \o Bytes(Tail(chunks))

\* how many acknowledged chunks of a session carry a sequence number
Copies(sid, seq) == Cardinality({i \in DOMAIN accepted[sid] : accepted[sid][i][1] = seq})

\* ----------------------------------------------------------------------- C1
\* C1, as stated: an append (non-empty chunk, integer seq, session in the
\* store) succeeds if and only if its seq equals the expected_seq read by
\* its check; every other seq is rejected with out_of_order.
C1_SucceedsIffInOrder ==
    \A t \in Threads : Checked(t) =>
        /\ res[t].code = "ok" <=> req[t].seq = req[t].expected
        /\ req[t].seq # req[t].expected => res[t].code = "out_of_order"

\* C1, amended: an append succeeds only if its seq equals the expected_seq
\* read by its check, and then it succeeds unless the write of the chunk
\* raises OSError (write_failed); every other seq, lower or higher, is
\* rejected with out_of_order, and out_of_order is answered for no other
\* reason.  A chunk acknowledged with seq n is the (n+1)-th acknowledged
\* chunk of its session.
C1_OnlyInOrderSucceeds ==
    \A t \in Threads : Checked(t) =>
        /\ res[t].code = "ok" => req[t].seq = req[t].expected
        /\ req[t].seq = req[t].expected => res[t].code \in {"ok", "write_failed"}
        /\ req[t].seq # req[t].expected <=> res[t].code = "out_of_order"
        /\ res[t].code = "ok" =>
              /\ res[t].next_seq = req[t].seq + 1
              /\ Len(accepted[req[t].sid]) > req[t].seq
              /\ accepted[req[t].sid][req[t].seq + 1] = <<req[t].seq, req[t].data>>

\* append 0 is acknowledged and a second append 0 is rejected as a duplicate
C1_Witness ==
    \E t, u \in Threads :
        /\ t # u /\ Checked(t) /\ Checked(u) /\ req[t].sid = req[u].sid
        /\ req[t].seq = 0 /\ res[t].code = "ok"
        /\ req[u].seq = 0 /\ req[u].expected = 1 /\ res[u].code = "out_of_order"

\* ----------------------------------------------------------------------- C2
\* two answered appends of one session that carry the same seq, the first
\* of them checked while that seq was the expected one
Raced(t, u) ==
    /\ t # u /\ Checked(t) /\ Checked(u)
    /\ req[t].sid = req[u].sid /\ req[t].seq = req[u].seq
    /\ req[t].expected = req[t].seq \/ req[u].expected = req[u].seq

\* C2, as stated: of two concurrent appends of one session with the same
\* seq (the expected one) exactly one succeeds and the other is rejected
\* with out_of_order; the chunk is stored once and the counters advance by 1.
C2_ExactlyOneSucceeds ==
    \A t, u \in Threads : Raced(t, u) =>
        /\ {res[t].code, res[u].code} = {"ok", "out_of_order"}
        /\ Copies(req[t].sid, req[t].seq) = 1

\* C2, amended: of two concurrent appends of one session with the same seq
\* (the expected one) at most one succeeds; unless a write of the chunk
\* raises OSError (write_failed) exactly one succeeds and the other is
\* rejected with out_of_order.  The chunk is never stored twice: it is
\* acknowledged once if one of the two succeeds, and each acknowledged
\* chunk advances expected_seq and chunk_count by exactly 1.
C2_AtMostOneSucceeds ==
    \A t, u \in Threads : Raced(t, u) =>
        LET codes == {res[t].code, res[u].code}
            sid == req[t].sid
        IN  /\ ~(res[t].code = "ok" /\ res[u].code = "ok")
            /\ "write_failed" \notin codes => codes = {"ok", "out_of_order"}
            /\ Copies(sid, req[t].seq) <= 1
            /\ "ok" \in codes => Copies(sid, req[t].seq) = 1
            /\ sess[sid].expected_seq = Len(accepted[sid])
            /\ sess[sid].chunk_count = Len(accepted[sid])

\* both appends carried seq 0 while it was expected: one is acknowledged,
\* the other rejected
C2_Witness ==
    \E t, u \in Threads :
        /\ Raced(t, u) /\ req[t].seq = 0
        /\ res[t].code = "ok" /\ res[u].code = "out_of_order"
        /\ sess[req[t].sid].expected_seq = 1

\* ----------------------------------------------------------------------- C3
\* an append holds the lock between its write and its counter update
Writing(sid) == \E t \in Threads : pc[t] = "append_advance" /\ req[t].sid = sid

\* C3, as stated: for every session in the store the recording file holds
\* exactly the acknowledged chunks 0 .. expected_seq-1, in order, each once.
\* Read in the claim's favour: the state inside the locked region of an
\* append on the session does not count, nor does a state in which the
\* file does not exist.
C3_StorageIsAcceptedChunks ==
    \A sid \in store : ~Writing(sid) =>
        /\ sid \in DOMAIN files => files[sid] = Bytes(accepted[sid])
        /\ Len(accepted[sid]) = sess[sid].expected_seq
        /\ \A i \in DOMAIN accepted[sid] : accepted[sid][i][1] = i - 1

\* ----------------------------------------------------------------------- C4
\* the positions of api_record_finalize after session.finalizing = True
AfterGuard ==
    {"check", "read", "decode", "transcribe", "translate", "unlink", "pop_wait",
     "pop_locked", "reset_wait", "reset_locked"}

\* a finalize is in flight past the test of the guard
Passed(t) == pc[t] \in AfterGuard \cup {"guard_set"}

\* C4: of the finalize calls on one session id at most one is past the
\* finalizing guard at any time; as long as it is in flight and the session
\* is in the store the flag is set, and every other finalize that tests the
\* guard of that session meanwhile is answered already_finalizing (409) and
\* goes no further, so no two of them decode, transcribe or translate at once.
C4_OneFinalizePastGuard ==
    /\ [](/\ \A t, u \in Threads :
                t # u /\ Passed(t) /\ Passed(u) => req[t].sid # req[u].sid
          /\ \A t \in Threads :
                pc[t] \in AfterGuard /\ req[t].sid \in store => sess[req[t].sid].finalizing)
    /\ [][\A u \in Threads :
            ( /\ pc[u] = "guard_locked" /\ pc'[u] # "guard_locked"
              /\ req[u].sid \in store
              /\ \E t \in Threads : t # u /\ Passed(t) /\ req[t].sid = req[u].sid )
            => /\ pc'[u] = "done"
               /\ res'[u].code = "already_finalizing" /\ res'[u].status = 409
               /\ sess' = sess /\ store' = store /\ files' = files]_vars

\* one finalize is transcribing, a second one on the same session has been
\* answered already_finalizing
C4_Witness ==
    \E t, u \in Threads :
        /\ pc[t] = "transcribe" /\ Done(u, "finalize") /\ req[u].sid = req[t].sid
        /\ res[u].code = "already_finalizing"

\* ----------------------------------------------------------------------- C5
\* a finalize response that is a success or a terminal failure
Terminal(r) ==
    \/ r.code \in {"ok", "empty_recording", "missing_file", "invalid_audio", "decode_error"}
    \/ r.code = "transcription_failed" /\ r.status = 400

\* C5, as stated: when finalize has returned success or a terminal failure
\* the session id is not in the store and the session's recording file does
\* not exist, whatever ran concurrently.
C5_FinalizeLeavesNothing ==
    \A t \in Threads : Done(t, "finalize") /\ Terminal(res[t]) =>
        /\ req[t].sid \notin store
        /\ req[t].sid \notin DOMAIN files

\* ----------------------------------------------------------------------- C6
\* the step by which thread t answers a finalize with status 502
Returns502(t) ==
    /\ req[t].kind = "finalize" /\ pc[t] # "done" /\ pc'[t] = "done"
    /\ res'[t].status = 502

\* C6: a finalize that fails because transcription or translation failed
\* upstream (502) has not deleted the recording file, and its return leaves
\* the store, the files and every session object as they are except that
\* finalizing is reset to false on its own session: the session, unless a
\* cancel removed it, stays in the store with its chunks and counters, and
\* the guard lets a following finalize through.
C6_UpstreamFailureKeepsSession ==
    /\ [](\A t \in Threads : Done(t, "finalize") /\ res[t].status = 502 =>
              /\ ~req[t].unlinked
              /\ res[t].code \in {"transcription_failed", "translation_failed"})
    /\ [][\A t \in Threads : Returns502(t) =>
            /\ store' = store /\ files' = files /\ accepted' = accepted
            /\ sess' = [sess EXCEPT ![req[t].sid].finalizing = FALSE]
            /\ req[t].sid \in store => ~Busy(sess'[req[t].sid])]_vars

\* after a 502 a second finalize on the session has passed the guard and
\* read every chunk uploaded so far
C6_Witness ==
    \E t, u \in Threads :
        /\ Done(t, "finalize") /\ res[t].status = 502
        /\ req[u].kind = "finalize" /\ req[u].sid = req[t].sid /\ pc[u] = "decode"
        /\ req[u].raw = Bytes(accepted[req[u].sid]) /\ req[u].raw # <<>>

\* ----------------------------------------------------------------------- C7
\* C7, as stated: a finalize whose decoded audio lasts more than 120 seconds
\* fails with the error code AudioTooLong, has removed the session and its
\* recording file when it returns, and has called neither transcription nor
\* translation; audio of at most 120 seconds is not rejected for length.
C7_TooLongRejected ==
    \A t \in Threads : Done(t, "finalize") /\ req[t].decoded =>
        /\ req[t].duration > MAX_AUDIO_DURATION_SECONDS =>
              /\ res[t].code = "AudioTooLong"
              /\ req[t].sid \notin store /\ req[t].sid \notin DOMAIN files
              /\ req[t].transcribed = 0 /\ req[t].translated = 0
        /\ req[t].duration \in 0..MAX_AUDIO_DURATION_SECONDS =>
              /\ res[t].code \notin {"AudioTooLong", "invalid_audio"}
              /\ req[t].transcribed > 0

\* ----------------------------------------------------------------------- C8
\* C8, as stated: a finalize on a session that has received no chunk fails
\* with empty_recording (400), runs no decoder and no remote call, and has
\* removed the session and its recording file when it returns; no finalize
\* gets past the emptiness test of a session without chunks.
C8_EmptyRecordingRemoved ==
    /\ \A t \in Threads : Done(t, "finalize") /\ res[t].code = "empty_recording" =>
          /\ res[t].status = 400
          /\ ~req[t].decoded /\ req[t].transcribed = 0 /\ req[t].translated = 0
          /\ req[t].sid \notin store /\ req[t].sid \notin DOMAIN files
    /\ \A t \in Threads : pc[t] \in {"read", "decode", "transcribe", "translate"} =>
          sess[req[t].sid].chunk_count > 0 /\ sess[req[t].sid].total_bytes > 0

\* ----------------------------------------------------------------------- C9
\* C9: a start whose normalised mime type is outside the allow-list is
\* answered unsupported_type and creates no session, no file and draws no
\* id; every session object ever put in the store has a mime type of the
\* allow-list, and no step changes the mime type of a session.
C9_MimeAllowList ==
    /\ [](/\ \A sid \in DOMAIN sess : sess[sid].mime_type \in ALLOWED_MIME_TYPES
          /\ store \subseteq DOMAIN sess
          /\ \A t \in Threads : Done(t, "start") =>
                /\ res[t].code = "unsupported_type" <=> req[t].mime \notin ALLOWED_MIME_TYPES
                /\ res[t].code = "unsupported_type" => req[t].sid = NoId /\ res[t].status = 400)
    /\ [][/\ \A sid \in DOMAIN sess :
                sid \in DOMAIN sess' /\ sess'[sid].mime_type = sess[sid].mime_type
          /\ \A t \in Threads :
                pc'[t] = "done" /\ pc[t] # "done" /\ res'[t].code = "unsupported_type" =>
                    store' = store /\ sess' = sess /\ files' = files /\ nextId' = nextId]_vars

\* a start with audio/mp4 has been rejected while a session is in the store
C9_Witness ==
    \E t \in Threads :
        /\ Done(t, "start") /\ req[t].mime = "audio/mp4" /\ res[t].code = "unsupported_type"
        /\ \E sid \in store : sess[sid].mime_type = "audio/wav"

C11_CancelAlwaysOk ==
    \A t \in Threads : Done(t, "cancel") => res[t].code = "ok" /\ res[t].status = 200

\* C11, amended: every cancel that names a session id, known or unknown, in
\* the store or not, is answered {ok: true} with status 200 (with the status
\* not_found when the id is not in the store); a cancel whose session_id is
\* empty or missing is answered missing_session (400).
C11_CancelOkUnlessNoId ==
    \A t \in Threads : Done(t, "cancel") =>
        IF req[t].sid = NoId
        THEN res[t].code = "missing_session" /\ res[t].status = 400
        ELSE /\ res[t].code = "ok" /\ res[t].status = 200
             /\ res[t].note \in {None, "not_found"}
             /\ res[t].note = None => req[t].unlinked

\* a cancel of an id no start returned has been acknowledged, a cancel
\* without an id has been refused
C11_Witness ==
    \E t, u \in Threads :
        /\ Done(t, "cancel") /\ req[t].sid = UnknownId /\ res[t] = NotFound
        /\ Done(u, "cancel") /\ req[u].sid = NoId /\ res[u].status = 400

\* ---------------------------------------------------------------------- C12
\* no append got past its check on the session of thread t's request while a
\* finalize was in flight: the requests on the session ran one after another
Sequential(t) == req[t].sid \notin overlap

C13_UnknownSessionFirst ==
    \A t \in Threads : Done(t, "append") /\ req[t].sid = UnknownId =>
        res[t].code = "unknown_session" /\ res[t].status = 404

\* C13, amended: an append that names a session id absent from the store
\* and carries a chunk upload, an integer seq and a non-empty chunk fails
\* with unknown_session (404) whatever the seq is; the checks of the form
\* come first, so without a chunk upload it fails with missing_chunk, with
\* a non-integer seq with invalid_sequence and with an empty chunk with
\* empty_chunk (400 each), in that order, without the store being consulted.
C13_UnknownSessionAfterForm ==
    /\ [](\A t \in Threads : Done(t, "append") /\ req[t].sid = UnknownId =>
              /\ res[t].code \in {"unknown_session", "missing_chunk", "invalid_sequence",
                                  "empty_chunk"}
              /\ res[t].code = "unknown_session" <=> req[t].data # <<>>
              /\ res[t].code = "unknown_session" => res[t].status = 404 /\ req[t].seq >= 0
              /\ res[t].code # "unknown_session" => res[t].status = 400 /\ req[t].expected = -1)
    /\ [][\A t \in Threads :
            pc[t] = "append_locked" /\ pc'[t] # "append_locked" /\ req[t].sid \notin store =>
                /\ pc'[t] = "done" /\ res'[t].code = "unknown_session" /\ res'[t].status = 404
                /\ store' = store /\ sess' = sess /\ files' = files]_vars

\* an append with seq 1 on an id that is in no store has been answered
\* unknown_session
C13_Witness ==
    \E t \in Threads :
        /\ Done(t, "append") /\ req[t].sid = UnknownId /\ req[t].seq = 1
        /\ res[t].code = "unknown_session"

\* ---------------------------------------------------------------------- C14
\* the error codes of an append or finalize that is rejected
RejectedCodes ==
    {"empty_chunk", "invalid_sequence", "out_of_order", "write_failed", "already_finalizing"}

\* C14, as stated: an append rejected with empty_chunk, invalid_sequence,
\* out_of_order or write_failed, and a finalize rejected with
\* already_finalizing, leave the store, every field of the session and the
\* contents of its recording file as they were: neither the step that
\* rejects the request nor a step the handler takes before it changes them.
C14_RejectedLeavesSession ==
    [][\A t \in Threads :
        /\ ( pc'[t] = "done" /\ pc[t] # "done" /\ res'[t].code \in RejectedCodes )
              => store' = store /\ sess' = sess /\ files' = files
        /\ ( pc'[t] # pc[t] /\ pc[t] \in {"append_wait", "append_locked", "guard_wait",
                                          "guard_locked"} )
              => store' = store /\ sess' = sess /\ files' = files]_vars

\* ---------------------------------------------------------------------- C15
\* the positions inside a `with RECORDING_LOCK:` block
LockedPcs ==
    {"start_locked", "append_locked", "append_write", "append_advance", "guard_locked",
     "guard_set", "pop_locked", "reset_locked", "cancel_locked"}

\* the positions of api_record_finalize at the decoder and the remote calls
SlowPcs == {"decode", "transcribe", "translate"}

\* C15: a finalize at the decode step or at a remote call does not hold
\* RECORDING_LOCK: the lock is held only inside the `with` blocks, none of
\* which contains the decoder or a remote call, so whenever a finalize is at
\* one of these steps and no thread is inside a `with` block, every thread
\* that waits for the lock can take it.
C15_SlowStepsHoldNoLock ==
    /\ \A t \in Threads : pc[t] \in SlowPcs => lock # t
    /\ \A t \in Threads : lock = t <=> pc[t] \in LockedPcs
    /\ \A t, u \in Threads :
          ( /\ pc[t] \in SlowPcs /\ pc[u] \in WaitPcs
            /\ \A v \in Threads : pc[v] \notin LockedPcs ) => ENABLED Acquire(u)

\* while a finalize is at the transcription call, an append on the same
\* session that arrived after the finalize passed the guard has been
\* acknowledged
C15_Witness ==
    \E t, u \in Threads :
        /\ pc[t] = "transcribe" /\ Done(u, "append") /\ res[u].code = "ok"
        /\ req[u].sid = req[t].sid /\ req[u].sid \in overlap
        /\ req[u].seq = Len(accepted[req[u].sid]) - 1
        /\ req[t].raw # Bytes(accepted[req[t].sid])

\* ---------------------------------------------------------------------- C16
\* C16: a step of a request on session A (a start that creates A, an append,
\* finalize or cancel that names A) leaves every other session B as it is:
\* B is in the store after the step iff it was before, and the fields of B,
\* the existence and contents of B's file and B's acknowledged chunks are
\* unchanged.  With C1 (the outcome of an append is decided by the
\* expected_seq of its own session) an append on B does not depend on the
\* requests on A.
C16_SessionsDoNotInterfere ==
    [][\A t \in Threads : pc'[t] # pc[t] =>
        LET A == IF pc[t] = "idle" THEN req'[t].sid ELSE req[t].sid
        IN  \A B \in SessionIds \ {A} :
              /\ B \in store' <=> B \in store
              /\ B \in DOMAIN sess' <=> B \in DOMAIN sess
              /\ B \in DOMAIN sess => sess'[B] = sess[B]
              /\ B \in DOMAIN files' <=> B \in DOMAIN files
              /\ B \in DOMAIN files => files'[B] = files[B]
              /\ accepted'[B] = accepted[B]
              /\ B \in overlap' <=> B \in overlap]_vars

\* a chunk has been acknowledged on one session while another session is in
\* the store with its empty file and its counters at 0
C16_Witness ==
    \E t \in Threads : \E B \in store :
        /\ Done(t, "append") /\ res[t].code = "ok" /\ req[t].sid # B
        /\ req[t].sid \in store /\ files[req[t].sid] = req[t].data
        /\ B \in DOMAIN files /\ files[B] = <<>> /\ sess[B].expected_seq = 0

\* ---------------------------------------------------------------------- C17
\* a finalize has returned its result payload
Succeeded(t) == Done(t, "finalize") /\ res[t].code = "ok"

\* C17, as stated: a finalize that returns success with resolved mode
\* translate has called translation exactly once and its result carries
\* translatedText; with resolved mode transcribe it has never called
\* translation and carries no translatedText.
C17_TranslateCallsOnce ==
    \A t \in Threads : Succeeded(t) =>
        /\ res[t].mode = "translate" =>
              req[t].translated = 1 /\ res[t].translatedText # None
        /\ res[t].mode = "transcribe" =>
              req[t].translated = 0 /\ res[t].translatedText = None

\* C17, amended: the target language is the request's target_lang, else the
\* session's, else the default_target_language of the settings.  A finalize
\* that returns success with resolved mode translate and a target language
\* has called translation exactly once, on the transcript, with that target
\* language, and carries its result as translatedText; when no target
\* language resolves (none given and the settings have none) it has not
\* called translation and carries no translatedText, as does every finalize
\* with resolved mode transcribe.
C17_TranslateCallsOnceWithTarget ==
    \A t \in Threads : Succeeded(t) =>
        LET code == IF req[t].target # None THEN req[t].target
                    ELSE settings.default_target_language
        IN  /\ res[t].mode \in {"transcribe", "translate"}
            /\ res[t].mode = "translate" /\ code # None =>
                  /\ req[t].translated = 1
                  /\ res[t].translatedText = Translation(res[t].text, code)
            /\ res[t].mode = "transcribe" \/ code = None =>
                  req[t].translated = 0 /\ res[t].translatedText = None

\* a finalize with the override mode TRANSLATE and no target language has
\* translated the transcript into the default target language of the settings
C17_Witness ==
    \E t \in Threads :
        /\ Succeeded(t) /\ res[t].mode = "translate" /\ req[t].target = None
        /\ req[t].translated = 1 /\ res[t].translatedText = "hello (en)"

\* ---------------------------------------------------------------------- C18
\* C18, as stated: at the transcription step and at the translation step
\* alike, a finalize whose step raised TranscriptionError ends with a 400
\* error and the session and its file removed, and one whose step raised
\* another exception ends with 502 and has not touched the file.
C18_SamePolicyBothSteps ==
    \A t \in Threads : Done(t, "finalize") /\ req[t].raised # None =>
        IF req[t].raised = "TranscriptionError"
        THEN /\ res[t].status = 400
             /\ req[t].sid \notin store /\ req[t].sid \notin DOMAIN files
        ELSE /\ res[t].status = 502 /\ ~req[t].unlinked
             /\ res[t].code \in {"transcription_failed", "translation_failed"}

\* ---------------------------------------------------------------------- C19
Modes == {"transcribe", "translate"}

\* the mode a request asks for when it asks for one of the two modes, in
\* whatever case; None otherwise
ValidMode(x) ==
    CASE x \in {"translate", "Translate", "TRANSLATE"} -> "translate"
      [] x \in {"transcribe", "Transcribe", "TRANSCRIBE"} -> "transcribe"
      [] OTHER -> None

\* C19: the mode of every session, and the mode start and finalize report,
\* is transcribe or translate.  Start stores and reports the mode the payload
\* asks for when it is one of the two, else transcribe; finalize resolves the
\* override of its payload when it is one of the two, the mode of the
\* session when the payload has none, and transcribe otherwise.
C19_ModeIsOneOfTwo ==
    /\ [](/\ \A sid \in DOMAIN sess : sess[sid].mode \in Modes
          /\ \A t \in Threads : Succeeded(t) => res[t].mode \in Modes
          /\ \A t \in Threads : Done(t, "start") /\ res[t].code = "ok" =>
                /\ res[t].mode \in Modes /\ res[t].mode = sess[req[t].sid].mode
                /\ res[t].mode = IF ValidMode(req[t].asked) # None
                                 THEN ValidMode(req[t].asked) ELSE "transcribe")
    /\ [][\A t \in Threads : pc[t] = "check" /\ pc'[t] = "read" =>
            /\ req'[t].mode = CASE ValidMode(req[t].mode) # None -> ValidMode(req[t].mode)
                                [] req[t].mode = None -> sess[req[t].sid].mode
                                [] OTHER -> "transcribe"
            /\ req'[t].out = req[t].out]_vars

\* a finalize whose override is not a mode, on a session started with mode
\* Translate, has reported the mode transcribe
C19_Witness ==
    \E t \in Threads :
        /\ Succeeded(t) /\ sess[req[t].sid].mode = "translate"
        /\ res[t].mode = "transcribe" /\ req[t].target = "fr"

\* ---------------------------------------------------------------------- C20
\* a session id that was in the store and is no longer
Removed(sid) == sid \in known /\ sid \notin store

\* an id once removed stays removed: a lookup of a removed id by append,
\* finalize or cancel finds nothing, and no step of a request that names a
\* removed id (a second pop included) changes the store
TornDown ==
    /\ \A sid \in SessionIds : Removed(sid) => Removed(sid)'
    /\ \A t \in Threads : pc'[t] # pc[t] /\ Removed(req[t].sid) =>
          /\ pc[t] \in {"append_locked", "guard_locked"} =>
                pc'[t] = "done" /\ res'[t] = UnknownSession
          /\ pc[t] = "cancel_locked" => pc'[t] = "done" /\ res'[t] = NotFound
          /\ store' = store

\* C20, as stated: once a session id has been removed from the store it
\* never reappears, and every append or finalize received afterwards that
\* names it is answered unknown_session, every cancel not_found.
C20_RemovedForGood ==
    [][/\ TornDown
       /\ \A t \in Threads :
            ( /\ pc[t] = "idle" /\ pc'[t] = "done"
              /\ req'[t].kind \in {"append", "finalize"} /\ Removed(req'[t].sid) )
            => res'[t] = UnknownSession]_vars

\* C20, amended: once a session id has been removed from the store it never
\* reappears; every later finalize that names it, and every later append
\* that names it and passes the checks of the form, is answered
\* unknown_session, and every later cancel not_found.  An append that names
\* it with a missing chunk, a non-integer seq or an empty chunk is answered
\* with the error of the form (400) before the store is consulted.
C20_RemovedForGoodAfterForm ==
    [][/\ TornDown
       /\ \A t \in Threads :
            ( /\ pc[t] = "idle" /\ pc'[t] = "done"
              /\ req'[t].kind \in {"append", "finalize"} /\ Removed(req'[t].sid) )
            => /\ req'[t].kind = "append"
               /\ res'[t].code \in {"missing_chunk", "invalid_sequence", "empty_chunk"}
               /\ res'[t].status = 400]_vars

\* after a cancel removed the session, an append on its id has been answered
\* unknown_session and a second cancel not_found
C20_Witness ==
    \E t, u \in Threads :
        /\ Done(t, "append") /\ Removed(req[t].sid) /\ res[t] = UnknownSession
        /\ Done(u, "cancel") /\ req[u].sid = req[t].sid /\ res[u] = NotFound
        /\ sess[req[t].sid].expected_seq = 0 /\ ~sess[req[t].sid].finalizing

\* ---------------------------------------------------------------------- C21
\* the sum of the lengths of a list of acknowledged chunks
RECURSIVE TotalLen(_)
TotalLen(chunks) == IF chunks = <<>> THEN 0 ELSE Len(Head(chunks)[2]) + TotalLen(Tail(chunks))

\* C21: a session object starts with expected_seq, chunk_count and
\* total_bytes at 0, no step decreases one of them, and outside the locked
\* region of an append chunk_count = expected_seq = the number of
\* acknowledged appends and total_bytes = the sum of the lengths of the
\* acknowledged chunks, so total_bytes >= chunk_count and total_bytes = 0
\* iff chunk_count = 0.
C21_CountersCountAccepted ==
    /\ [](\A sid \in DOMAIN sess :
              /\ sess[sid].expected_seq = Len(accepted[sid])
              /\ sess[sid].chunk_count = sess[sid].expected_seq
              /\ sess[sid].total_bytes = TotalLen(accepted[sid])
              /\ sess[sid].total_bytes >= sess[sid].chunk_count
              /\ sess[sid].total_bytes = 0 <=> sess[sid].chunk_count = 0)
    /\ [][\A sid \in DOMAIN sess' :
            IF sid \in DOMAIN sess
            THEN /\ sess'[sid].expected_seq >= sess[sid].expected_seq
                 /\ sess'[sid].chunk_count >= sess[sid].chunk_count
                 /\ sess'[sid].total_bytes >= sess[sid].total_bytes
                 /\ sess'[sid].expected_seq - sess[sid].expected_seq \in {0, 1}
            ELSE /\ sess'[sid].expected_seq = 0 /\ sess'[sid].chunk_count = 0
                 /\ sess'[sid].total_bytes = 0]_vars

\* a session has acknowledged two chunks of two bytes each
C21_Witness ==
    \E sid \in store :
        /\ sess[sid].expected_seq = 2 /\ sess[sid].chunk_count = 2
        /\ sess[sid].total_bytes = 4 /\ Len(accepted[sid]) = 2

TrueFlags == {"1", "true", "True", "yes", "on"}

\* the upload of a /transcribe request was accepted and decoded within the
\* duration limit, and every remote call made for it returned
Transcribed(t) ==
    /\ Done(t, "transcribe")
    /\ req[t].mime \in ALLOWED_MIME_TYPES /\ req[t].raw # <<>>
    /\ req[t].decoded /\ req[t].duration \in 0..MAX_AUDIO_DURATION_SECONDS
    /\ req[t].transcribed = 1 /\ req[t].raised = None

\* C23: a /transcribe request with an allowed mime type and non-empty audio
\* that decodes within the duration limit, whose remote calls return, is
\* answered 200 with the transcription output as text and a non-negative
\* durationMs, and, when the translate flag is set and a target language
\* resolves, with the translation of that text into the target language.
C23_TranscribeReturnsText ==
    \A t \in Threads :
        Transcribed(t) =>
            /\ res[t].status = 200
            /\ req[t].text \in Transcripts /\ res[t].text = req[t].text
            /\ res[t].durationMs >= 0
            /\ LET code == Or(NormalizeLanguage(req[t].target), settings.default_target_language)
               IN  req[t].flag \in TrueFlags /\ code # None =>
                       /\ req[t].translated = 1
                       /\ res[t].translatedText = Translation(req[t].text, code)

\* an upload with the flag set and no target language of its own has been
\* answered with the translation into the settings' default target language
C23_Witness ==
    \E t \in Threads :
        /\ Transcribed(t) /\ req[t].flag \in TrueFlags /\ req[t].target = None
        /\ req[t].text = "bye" /\ res[t].translatedText = Translation("bye", "en")

\* ---------------------------------------------------------------------- C24
\* thread t takes a step of a /transcribe request
TranscribeStep(t) ==
    /\ req[t].kind = "transcribe" \/ req'[t].kind = "transcribe"
    /\ <<pc[t], req[t], res[t]>> # <<pc'[t], req'[t], res'[t]>>

\* C24: a step of a /transcribe request, whatever its input and outcome,
\* leaves the session table, every session's storage, counters and flag,
\* the lock and every other thread's request where they are, and a thread
\* serving /transcribe never holds or waits for the lock.
C24_TranscribeKeepsNoSession ==
    /\ [](\A t \in Threads :
              req[t].kind = "transcribe" => lock # t /\ pc[t] \notin WaitPcs \cup LockedPcs)
    /\ [][\A t \in Threads :
            TranscribeStep(t) =>
                /\ UNCHANGED <<store, sess, files, lock, nextId, known, accepted, overlap>>
                /\ \A u \in Threads \ {t} :
                       UNCHANGED <<pc[u], req[u], res[u]>>]_vars

\* a /transcribe request has been answered while an append on a session
\* with accepted bytes holds the lock
C24_Witness ==
    \E t, u \in Threads :
        /\ Done(t, "transcribe") /\ res[t].status = 200
        /\ pc[u] = "append_write" /\ lock = u /\ req[u].sid \in store

\* ---------------------------------------------------------------------- C25
Fields ==
    {"default_language", "translate_by_default", "default_target_language", "female_voice",
     "male_voice"}

\* a POST /api/settings has been answered 200
Updated200(t) == Done(t, "update_settings") /\ res[t].status = 200

\* the value a 200 response reports for a posted value of field f, given
\* the value `old` the handler read for that field
Normalised(f, value, old) ==
    IF f \in {"default_language", "default_target_language"}
    THEN (IF value \in {None, "", "default"} THEN None ELSE value)
    ELSE IF f = "translate_by_default"
    THEN (IF value \in {None, "", "false"} THEN "false" ELSE "true")
    ELSE (IF value \in {None, "", "false"} THEN old ELSE value)

\* settings are changed by the save of an update and by nothing else, the
\* response of that update reports what the save left, and a GET reports
\* the settings as they are
SettingsFollow ==
    /\ settings' # settings =>
          \E t \in Threads : pc[t] = "settings_save" /\ Updated200(t)'
    /\ \A t \in Threads :
          /\ pc[t] = "settings_save" /\ Updated200(t)' =>
                res'[t].settings = ToMapping(settings')
          /\ Done(t, "get_settings")' /\ pc[t] = "idle" =>
                res'[t].settings = ToMapping(settings)

\* C25, as stated: the response of a POST /api/settings, and a GET that
\* follows it, report the posted value for every posted field, and every
\* absent field keeps the value it had.
C25_SettingsRoundTrip ==
    /\ [](\A t \in Threads : \A f \in Fields :
              Updated200(t) =>
                  res[t].settings[f] = IF req[t].payload[f] = Absent
                                       THEN ToMapping(req[t].before)[f]
                                       ELSE req[t].payload[f])
    /\ [][SettingsFollow]_vars

\* C25, amended: the response of a POST /api/settings that is answered 200,
\* and a GET that follows it with no other update saved in between, report
\* for every posted field its normalised value (a language of null, "" or
\* "default" is null; translate_by_default is the truth value of what was
\* posted; a null or empty voice is the voice held before), and for every
\* absent field the value the handler read before the update.
C25_SettingsRoundTripNormalised ==
    /\ [](\A t \in Threads : \A f \in Fields :
              Updated200(t) =>
                  res[t].settings[f] =
                      IF req[t].payload[f] = Absent
                      THEN ToMapping(req[t].before)[f]
                      ELSE Normalised(f, req[t].payload[f], ToMapping(req[t].before)[f]))
    /\ [][SettingsFollow]_vars

\* an update that posted the language "default", the flag "no" and an empty
\* male voice has been answered: null, true and the old voice, the absent
\* female voice as an earlier update left it
C25_Witness ==
    \E t \in Threads :
        /\ Updated200(t) /\ req[t].payload.translate_by_default = "no"
        /\ req[t].payload.male_voice = "" /\ req[t].payload.female_voice = Absent
        /\ res[t].settings.translate_by_default = "true"
        /\ res[t].settings.male_voice = "Ash" /\ res[t].settings.female_voice = "Echo"
        /\ settings.default_target_language = None

\* ---------------------------------------------------------------------- C26
\* no request is in flight
Quiescent == \A t \in Threads : pc[t] \in {"idle", "done"}

\* C26, as stated: whenever no request is in flight, a recording file
\* exists only for session ids that are in the store.
C26_NoOrphanStorage == Quiescent => DOMAIN files \subseteq store

\* ---------------------------------------------------------------------- C27
\* the elements of a occur in b, in order
RECURSIVE Embedded(_, _)
Embedded(a, b) ==
    IF a = <<>> THEN TRUE
    ELSE IF b = <<>> THEN FALSE
    ELSE IF Head(a) = Head(b) THEN Embedded(Tail(a), Tail(b))
    ELSE Embedded(a, Tail(b))

\* C27, as stated: when a finalize returns success, every chunk of the
\* session whose append was acknowledged is in the bytes the finalize read
\* and decoded.  Read in the claim's favour: bytes a failed write left in
\* the file may stand between the chunks.
C27_NoChunkLost ==
    \A t \in Threads : Succeeded(t) => Embedded(Bytes(accepted[req[t].sid]), req[t].raw)

\* ---------------------------------------------------------------------- C28
\* the finalize calls on a session that are past the assignment
\* session.finalizing = True and have not returned
InFlight(sid) ==
    {t \in Threads : pc[t] \in AfterGuard /\ req[t].kind = "finalize" /\ req[t].sid = sid}

\* C28: a session in the store has finalizing = true if and only if exactly
\* one finalize on it is past the guard and has not returned (never more
\* than one); so a finalize that has returned, whatever its path, has left
\* no session in the store with the flag set on its account.
C28_FinalizingIffInFlight ==
    /\ \A sid \in store :
          /\ Cardinality(InFlight(sid)) <= 1
          /\ sess[sid].finalizing <=> Cardinality(InFlight(sid)) = 1
    /\ \A t \in Threads :
          ( /\ Done(t, "finalize") /\ req[t].sid \in store
            /\ InFlight(req[t].sid) = {} ) => ~sess[req[t].sid].finalizing

\* a finalize has returned 502 and left the session in the store with the
\* flag reset, and no other finalize is on it
C28_Witness ==
    \E t \in Threads :
        /\ Done(t, "finalize") /\ res[t].status = 502 /\ req[t].sid \in store
        /\ InFlight(req[t].sid) = {} /\ ~sess[req[t].sid].finalizing

\* ---------------------------------------------------------------------- C29
\* a cancel has answered {ok: true} without the not_found status: it
\* removed the session
Cancelled(t) == Done(t, "cancel") /\ res[t] = Ok

\* C29, as stated: when a cancel has removed a session, no finalize on that
\* session returns a transcription result, and once the cancel has been
\* acknowledged no finalize on it goes on to the transcription call or to
\* the translation call.
C29_OneTerminalOutcome ==
    /\ [](\A t, u \in Threads :
              Cancelled(t) /\ req[u].kind = "finalize" /\ req[u].sid = req[t].sid
                  => ~Succeeded(u))
    /\ [][\A t, u \in Threads :
            Cancelled(t) /\ req[u].kind = "finalize" /\ req[u].sid = req[t].sid =>
                /\ pc[u] = "decode" => pc'[u] # "transcribe"
                /\ pc[u] = "transcribe" => pc'[u] # "translate"]_vars

\* ---------------------------------------------------------------------- C30
\* C30: the step that puts a session into the store finds its recording
\* file in place and empty and inserts a session object with expected_seq,
\* chunk_count and total_bytes 0 and finalizing false; a start answered
\* storage_unavailable (500) has created no file and inserted no session,
\* and its id never enters the store.
C30_StorageBeforeSession ==
    /\ [](\A t \in Threads : Done(t, "start") /\ res[t].code = "storage_unavailable" =>
              /\ res[t].status = 500
              /\ req[t].sid \notin store /\ req[t].sid \notin known
              /\ req[t].sid \notin DOMAIN sess /\ req[t].sid \notin DOMAIN files)
    /\ [][\A sid \in store' \ store :
            /\ sid \in DOMAIN files /\ files[sid] = <<>> /\ files' = files
            /\ sess'[sid].expected_seq = 0 /\ sess'[sid].chunk_count = 0
            /\ sess'[sid].total_bytes = 0 /\ ~sess'[sid].finalizing]_vars

\* one start has put its session into the store with its empty file, another
\* has failed with storage_unavailable
C30_Witness ==
    \E t, u \in Threads :
        /\ Done(t, "start") /\ res[t].code = "ok" /\ req[t].sid \in store
        /\ files[req[t].sid] = <<>> /\ sess[req[t].sid].expected_seq = 0
        /\ Done(u, "start") /\ res[u].code = "storage_unavailable"

====
